---- MODULE Spec2Model ----
(***************************************************************************)
(* Paste lifecycle of orion-paste (src/app.py): slug generation, creation, *)
(* expiry-checked lookup and password-gated update, run by concurrent      *)
(* request handlers over one shared MongoDB collection.                    *)
(***************************************************************************)
EXTENDS Integers, Sequences, FiniteSets, TLC

\* ---------------------------------------------------------------- bounds
NumProcs == 2      \* concurrent request handlers
MaxClock == 3      \* the instants at which requests arrive: 1..MaxClock
MaxCreates == 2    \* create requests that pass validation (Spec)
MaxConcCreates == 3 \* create requests that pass validation (SpecConc)
NumSlugs == 2      \* distinct values gen_slug can draw
NumSalts == 1      \* distinct salts generate_password_hash can draw

Procs == 1..NumProcs

\* ------------------------------------------------------------ input sets
\* Strings of form fields are sequences of characters where the code looks
\* inside them (content.strip()), plain strings elsewhere.
Contents == {<<>>, <<" ">>, <<"a">>, <<" ", "b">>}
\* the contents among them that are empty or all whitespace
Blank == {<<>>, <<" ">>}
Titles == {"", "T"}
Languages == {"", "py"}
Passwords == {"", "pw", "x"}
\* the passwords a paste is created with ("" is no password)
CreatePasswords == {"", "pw"}
\* request.form.get("expire_days", type=int): <<>> is None, <<n>> an int
ExpireDays == {<<>>, <<0>>, <<-1>>, <<1>>}
\* a form field that the request does not carry
Absent == "<absent>"

\* None in a timestamp field (the clock starts at 1)
NoTime == 0
\* None in password_hash
NoHash == <<>>

\* ------------------------------------------------------------- variables
VARIABLES
    pastes,     \* the collection db.pastes: a set of documents
    clock,      \* datetime.utcnow(): the current instant.  Consecutive
                \* instants are one day apart, and everything that happens
                \* at one instant happens within the same second
    inc,        \* ObjectId's process counter
    creates,    \* number of create requests that passed validation
    pc,         \* pc[p]: "idle", "insert" (create before insert_one),
                \*        "update" (edit_paste before update_one)
    local,      \* local[p]: the handler's local variables
    last,       \* the last handler step and its response
    created     \* history: each document as insert_one stored it, with
                \* the form it was created from

vars == <<pastes, clock, inc, creates, pc, local, last, created>>

\* --------------------------------------------------------------- helpers
IsSpace(c) == c = " "

RECURSIVE LStrip(_)
LStrip(s) ==
    IF s = <<>> THEN <<>>
    ELSE IF IsSpace(Head(s)) THEN LStrip(Tail(s)) ELSE s

RECURSIVE RStrip(_)
RStrip(s) ==
    IF s = <<>> THEN <<>>
    ELSE IF IsSpace(s[Len(s)]) THEN RStrip(SubSeq(s, 1, Len(s) - 1)) ELSE s

\* str.strip()
Strip(s) == RStrip(LStrip(s))

\* gen_slug(7): ALPHABET^7, cut down to NumSlugs values.  A random slug has
\* 7 characters and an ObjectId prefix 8, so the two kinds never coincide:
\* the tag keeps them apart.
gen_slug == {<<"rnd", i>> : i \in 1..NumSlugs}

\* ObjectId(): 4-byte timestamp, then random bytes and a 3-byte counter
ObjectId(now, counter) == [ts |-> now, inc |-> counter]

\* str(ObjectId())[:8]: the first 8 hex digits are the 4 timestamp bytes
ObjectIdPrefix(oid) == <<"oid", oid.ts>>

\* werkzeug generate_password_hash: salted one-way digest
generate_password_hash(password, salt) == <<salt, <<"digest", salt, password>>>>

\* werkzeug check_password_hash: recompute with the stored salt and compare
check_password_hash(pwhash, password) ==
    pwhash # NoHash /\ pwhash[2] = <<"digest", pwhash[1], password>>

\* `if not content.strip()` (create) / `if not new_content.strip()` (edit)
ContentEmptyNoStrip(content) == content = <<>>
ContentEmptyNever(content) == FALSE
ContentEmpty(content) == Strip(content) = <<>>

\* pastes.find_one({"slug": slug})
find_oneAny(slug) == pastes
find_one(slug) == {r \in pastes : r.slug = slug}

\* `paste.get("expires_at") and now > paste["expires_at"]`
IsExpiredNever(paste, now) == FALSE
IsExpiredAtOrAfter(paste, now) ==
    paste.expires_at # NoTime /\ now >= paste.expires_at
IsExpiredIfSet(paste, now) == paste.expires_at # NoTime
IsExpired(paste, now) == paste.expires_at # NoTime /\ now > paste.expires_at

\* pastes.delete_one({"_id": id})
delete_none(id) == pastes
delete_one(id) == {r \in pastes : r._id # id}

\* pastes.insert_one(doc) under the unique index on slug that startup
\* builds: a document whose slug is already stored is rejected with
\* DuplicateKeyError
InsertAcceptedAlways(doc) == TRUE
InsertAccepted(doc) == \A r \in pastes : r.slug # doc.slug

\* the document built by create
NewPasteStripped(slug, form, now, salt, id) ==
    [_id |-> id,
     slug |-> slug,
     title |-> form.title,
     language |-> form.language,
     content |-> Strip(form.content),
     created_at |-> now,
     updated_at |-> NoTime,
     expires_at |-> IF form.expire_days # <<>> /\ form.expire_days[1] # 0
                       /\ form.expire_days[1] > 0
                    THEN now + form.expire_days[1] ELSE NoTime,
     password_hash |-> IF form.password # ""
                       THEN generate_password_hash(form.password, salt)
                       ELSE NoHash]
NewPasteAnyDays(slug, form, now, salt, id) ==
    [_id |-> id,
     slug |-> slug,
     title |-> form.title,
     language |-> form.language,
     content |-> form.content,
     created_at |-> now,
     updated_at |-> NoTime,
     expires_at |-> IF form.expire_days # <<>>
                    THEN now + form.expire_days[1] ELSE NoTime,
     password_hash |-> IF form.password # ""
                       THEN generate_password_hash(form.password, salt)
                       ELSE NoHash]
NewPaste(slug, form, now, salt, id) ==
    [_id |-> id,
     slug |-> slug,
     title |-> form.title,
     language |-> form.language,
     content |-> form.content,
     created_at |-> now,
     updated_at |-> NoTime,
     expires_at |-> IF form.expire_days # <<>> /\ form.expire_days[1] # 0
                       /\ form.expire_days[1] > 0
                    THEN now + form.expire_days[1] ELSE NoTime,
     password_hash |-> IF form.password # ""
                       THEN generate_password_hash(form.password, salt)
                       ELSE NoHash]

\* ------------------------------------------------------------ bookkeeping
NoForm == [title |-> "", language |-> "", content |-> <<>>,
           expire_days |-> <<>>, password |-> ""]
NoSlug == <<"none", 0>>
Idle == [slug |-> NoSlug, form |-> NoForm, paste |-> {}]

\* no store call of the request raised
NoFailure == <<"none", "none">>

\* what the last handler step was asked and what it answered: the slug of
\* the request (or the slug create redirects to), the submitted content and
\* password, the outcome, the paste handed to the template, the body of
\* a raw response, and the store call that raised with its exception
Response(op, slug, content, password, status, paste, body) ==
    [op |-> op, slug |-> slug, content |-> content, password |-> password,
     status |-> status, paste |-> paste, body |-> body,
     failed |-> NoFailure]

\* The create requests: two texts that differ in title, language and
\* content, with and without password, for each kind of expire_days, and
\* the two contents that strip() empties.
CreateForms ==
    {f \in [title : Titles, language : Languages, content : Contents,
            expire_days : ExpireDays, password : CreatePasswords] :
        \/ /\ f.title = "T" /\ f.language = "" /\ f.content = <<"a">>
           /\ f.password = "" /\ f.expire_days \in {<<>>, <<0>>, <<1>>}
        \/ /\ f.title = "" /\ f.language = "py" /\ f.content = <<" ", "b">>
           /\ f.password = "pw" /\ f.expire_days \in {<<-1>>, <<1>>}
        \/ /\ f.title = "" /\ f.language = "" /\ f.content \in Blank
           /\ f.expire_days = <<>> /\ f.password = ""}

\* The edit requests: a right or a wrong password with new content and
\* a title or a language that is either not in the form or new, and any
\* password with content that strip() empties.
EditForms ==
    {f \in [title : {Absent, "T2"}, language : {Absent, "js"},
            content : Contents, expire_days : {<<>>}, password : Passwords] :
        \/ /\ f.content \notin Blank
           /\ f.password # ""
           /\ f.title = Absent \/ f.language = Absent
        \/ /\ f.content \in Blank
           /\ f.title = Absent /\ f.language = Absent}

\* The slugs a request can name: any random slug, any ObjectId prefix
Slugs == gen_slug \cup {ObjectIdPrefix(ObjectId(t, 0)) : t \in 1..MaxClock}

\* Handlers are interchangeable: a request that takes two steps runs in
\* the lowest idle handler.
Free(p) == pc[p] = "idle" /\ \A q \in Procs : q < p => pc[q] # "idle"

Init ==
    /\ pastes = {}
    /\ clock = 1
    /\ inc = 0
    /\ creates = 0
    /\ pc = [p \in Procs |-> "idle"]
    /\ local = [p \in Procs |-> Idle]
    /\ last = Response("init", NoSlug, <<>>, "", "OK", {}, <<>>)
    /\ created = {}

\* ---------------------------------------------------------------- create
\* POST /create with content that is empty after strip(): flash + redirect
create_invalid(form) ==
    /\ ContentEmpty(form.content)
    /\ last' = Response("create_post", NoSlug, form.content, form.password,
                        "ValidationError", {}, <<>>)
    /\ UNCHANGED <<pastes, clock, inc, creates, pc, local, created>>

\* POST /create up to the collision check: gen_slug, find_one, fallback
create_lookup(p, form, candidate) ==
    /\ Free(p)
    /\ ~ContentEmpty(form.content)
    /\ creates' = creates + 1
    /\ IF find_one(candidate) # {}
       THEN /\ local' = [local EXCEPT ![p] =
                  [slug |-> ObjectIdPrefix(ObjectId(clock, inc)),
                   form |-> form, paste |-> {}]]
            /\ inc' = inc + 1
       ELSE /\ local' = [local EXCEPT ![p] =
                  [slug |-> candidate, form |-> form, paste |-> {}]]
            /\ inc' = inc
    /\ pc' = [pc EXCEPT ![p] = "insert"]
    /\ last' = Response("create_post", NoSlug, form.content,
                        form.password, "pending", {}, <<>>)
    /\ UNCHANGED <<pastes, clock, created>>

\* POST /create from `now = datetime.utcnow()` to the redirect
create_insert(p, salt) ==
    /\ pc[p] = "insert"
    /\ LET doc == NewPaste(local[p].slug, local[p].form, clock, salt,
                           ObjectId(clock, inc))
       IN IF InsertAccepted(doc)
          THEN /\ pastes' = pastes \cup {doc}
               /\ created' = created \cup
                      {[doc |-> doc, form |-> local[p].form]}
               /\ last' = Response("create_insert", doc.slug, local[p].form.content,
                                   local[p].form.password, "OK", {}, <<>>)
          ELSE /\ UNCHANGED <<pastes, created>>
               /\ last' = Response("create_insert", doc.slug, local[p].form.content,
                                   local[p].form.password,
                                   "DuplicateKeyError", {}, <<>>)
    /\ inc' = inc + 1
    /\ pc' = [pc EXCEPT ![p] = "idle"]
    /\ local' = [local EXCEPT ![p] = Idle]
    /\ UNCHANGED <<clock, creates>>

\* ------------------------------------------------------------------ get
\* get_paste_or_404(slug) at time now: the outcome, the paste returned to
\* the caller and the collection afterwards
get_paste_or_404(slug, now) ==
    LET found == find_one(slug)
    IN IF found = {}
       THEN [status |-> "NotFound", paste |-> {}, store |-> pastes]
       ELSE LET paste == CHOOSE r \in found : TRUE
            IN IF IsExpired(paste, now)
               THEN [status |-> "NotFound", paste |-> {},
                     store |-> delete_one(paste._id)]
               ELSE [status |-> "OK", paste |-> {paste}, store |-> pastes]

\* GET /p/<slug>
view_paste(slug) ==
    /\ LET g == get_paste_or_404(slug, clock)
       IN /\ pastes' = g.store
          /\ last' = Response("view", slug, <<>>, "", g.status, g.paste, <<>>)
    /\ UNCHANGED <<clock, inc, creates, pc, local, created>>

\* GET /raw/<slug>
raw_paste(slug) ==
    /\ LET g == get_paste_or_404(slug, clock)
       IN /\ pastes' = g.store
          /\ last' = Response("raw", slug, <<>>, "", g.status, {},
                 IF g.status = "OK"
                 THEN (CHOOSE r \in g.paste : TRUE).content ELSE <<>>)
    /\ UNCHANGED <<clock, inc, creates, pc, local, created>>

\* ----------------------------------------------------------------- edit
\* `if not paste.get("password_hash")`
NotEditableNever(paste) == FALSE
NotEditable(paste) == paste.password_hash = NoHash

\* `check_password_hash(paste["password_hash"], password)`
PasswordOkAlways(paste, password) == TRUE
PasswordOk(paste, password) == check_password_hash(paste.password_hash, password)

\* the outcome of edit_paste before it touches the form's content
EditGate(g) ==
    IF g.status # "OK" THEN "NotFound"
    ELSE IF NotEditable(CHOOSE r \in g.paste : TRUE) THEN "NotEditable"
    ELSE "OK"

\* GET /edit/<slug>
edit_paste_get(slug) ==
    /\ LET g == get_paste_or_404(slug, clock)
       IN /\ pastes' = g.store
          /\ last' = Response("edit_get", slug, <<>>, "", EditGate(g),
                 IF EditGate(g) = "OK" THEN g.paste ELSE {}, <<>>)
    /\ UNCHANGED <<clock, inc, creates, pc, local, created>>

\* the outcome of POST /edit/<slug> before update_one
EditOutcomeContentFirst(g, form) ==
    IF EditGate(g) # "OK" THEN EditGate(g)
    ELSE IF ContentEmpty(form.content) THEN "ValidationError"
    ELSE IF ~PasswordOk(CHOOSE r \in g.paste : TRUE, form.password)
         THEN "Unauthorized"
    ELSE "pending"
EditOutcome(g, form) ==
    IF EditGate(g) # "OK" THEN EditGate(g)
    ELSE IF ~PasswordOk(CHOOSE r \in g.paste : TRUE, form.password)
         THEN "Unauthorized"
    ELSE IF ContentEmpty(form.content) THEN "ValidationError"
    ELSE "pending"

\* POST /edit/<slug> up to update_one: 404, flash + redirect, or the
\* lookup and the three checks pass and update_one is next
edit_paste_post(p, slug, form) ==
    /\ Free(p)
    /\ LET g == get_paste_or_404(slug, clock)
           outcome == EditOutcome(g, form)
       IN IF outcome = "pending"
          THEN /\ local' = [local EXCEPT ![p] =
                      [slug |-> slug, form |-> form, paste |-> g.paste]]
               /\ pc' = [pc EXCEPT ![p] = "update"]
               /\ last' = Response("edit_post", slug, form.content,
                                   form.password, "pending", {}, <<>>)
               /\ UNCHANGED pastes
          ELSE /\ pastes' = g.store
               /\ last' = Response("edit_post", slug, form.content,
                                   form.password, outcome, {}, <<>>)
               /\ UNCHANGED <<pc, local>>
    /\ UNCHANGED <<clock, inc, creates, created>>

\* the `$set` of update_one applied to the stored document r
SetFieldsCreatedAt(r, paste, form, now) ==
    [r EXCEPT !.content = form.content, !.created_at = now]
SetFields(r, paste, form, now) ==
    [r EXCEPT !.content = form.content,
              !.title = IF form.title = Absent THEN paste.title
                        ELSE form.title,
              !.language = IF form.language = Absent THEN paste.language
                           ELSE form.language,
              !.updated_at = now]

\* pastes.update_one({"_id": id}, {"$set": ...}): no upsert
update_oneSave(paste, form, now) ==
    {r \in pastes : r._id # paste._id}
       \cup {SetFields(paste, paste, form, now)}
update_one(paste, form, now) ==
    {IF r._id = paste._id THEN SetFields(r, paste, form, now) ELSE r :
        r \in pastes}

\* POST /edit/<slug> from update_one to the redirect
edit_paste_update(p) ==
    /\ pc[p] = "update"
    /\ LET paste == CHOOSE r \in local[p].paste : TRUE
       IN pastes' = update_one(paste, local[p].form, clock)
    /\ last' = Response("edit_update", local[p].slug, local[p].form.content,
                        local[p].form.password, "OK", {}, <<>>)
    /\ pc' = [pc EXCEPT ![p] = "idle"]
    /\ local' = [local EXCEPT ![p] = Idle]
    /\ UNCHANGED <<clock, inc, creates, created>>

\* ----------------------------------------------------------------- clock
Tick ==
    /\ clock < MaxClock
    /\ clock' = clock + 1
    /\ last' = Response("tick", NoSlug, <<>>, "", "OK", {}, <<>>)
    /\ UNCHANGED <<pastes, inc, creates, pc, local, created>>

\* POST /create that passes validation, while fewer than cap have
create_begin(p, form, candidate, cap) ==
    /\ creates < cap
    /\ create_lookup(p, form, candidate)

\* One step of the service: `slots` are the handlers that may run a
\* two-step request, `cap` bounds the creates that pass validation, and the
\* requests are drawn from the forms and slugs given.
Step(slots, cap, cforms, eforms, slugs) ==
    \/ \E form \in cforms : create_invalid(form)
    \/ \E p \in slots, form \in cforms, c \in gen_slug :
           create_begin(p, form, c, cap)
    \/ \E p \in slots, salt \in 1..NumSalts : create_insert(p, salt)
    \/ \E slug \in slugs : view_paste(slug)
    \/ \E slug \in slugs : raw_paste(slug)
    \/ \E slug \in slugs : edit_paste_get(slug)
    \/ \E p \in slots, slug \in slugs, form \in eforms :
           edit_paste_post(p, slug, form)
    \/ \E p \in slots : edit_paste_update(p)
    \/ Tick

\* Two pastes, one two-step request at a time, interleaved with views, raw
\* reads, edit forms, rejected requests and the clock.
MainEditForms ==
    {f \in EditForms :
        \/ f.content = <<"a">> /\ f.title = Absent /\ f.language = "js"
        \/ f.content = <<" ">>}

Next == Step({1}, MaxCreates, CreateForms, MainEditForms, Slugs)

Spec == Init /\ [][Next]_vars

\* Concurrent creates: every interleaving of the lookup and insert steps
\* of NumProcs creates of expiring pastes, with the reads that delete them.
ConcCreateForms ==
    {f \in CreateForms : f.content \in Blank \/ f.expire_days = <<1>>}

NextConc ==
    \/ \E form \in ConcCreateForms : create_invalid(form)
    \/ \E p \in Procs, form \in ConcCreateForms, c \in gen_slug :
           create_begin(p, form, c, MaxConcCreates)
    \/ \E p \in Procs, salt \in 1..NumSalts : create_insert(p, salt)
    \/ \E slug \in Slugs : view_paste(slug)
    \/ \E slug \in Slugs : raw_paste(slug)
    \/ Tick

SpecConc == Init /\ [][NextConc]_vars

\* ------------------------------------------------- store call failures
\* The exceptions a pymongo call can raise here: the server cannot be
\* selected, the connection breaks, a socket times out, or the server
\* refuses the operation.
StoreErrors == {"ServerSelectionTimeoutError", "ConnectionFailure",
                "NetworkTimeout", "OperationFailure"}

\* the classes an exception is an instance of
Bases(e) ==
    CASE e = "ServerSelectionTimeoutError" ->
            {"ServerSelectionTimeoutError", "AutoReconnect",
             "ConnectionFailure", "PyMongoError"}
      [] e = "NetworkTimeout" ->
            {"NetworkTimeout", "AutoReconnect", "ConnectionFailure",
             "PyMongoError"}
      [] e = "ConnectionFailure" -> {"ConnectionFailure", "PyMongoError"}
      [] OTHER -> {"OperationFailure", "PyMongoError"}

\* the two errorhandler registrations of handle_db_error: an exception of
\* either class (or a subclass) is answered 503, any other exception is
\* left to Flask and answered 500
handle_db_errorTimeoutOnly(e) ==
    IF "ServerSelectionTimeoutError" \in Bases(e)
    THEN "StoreUnavailable" ELSE "InternalError"
handle_db_error(e) ==
    IF "ServerSelectionTimeoutError" \in Bases(e)
          \/ "ConnectionFailure" \in Bases(e)
    THEN "StoreUnavailable" ELSE "InternalError"

\* the response of a request whose store call raised e
Raised(op, slug, content, password, call, e) ==
    [Response(op, slug, content, password, handle_db_error(e), {}, <<>>)
        EXCEPT !.failed = <<call, e>>]

\* POST /create: the find_one of the collision check raises
create_find_fails(form, e) ==
    /\ ~ContentEmpty(form.content)
    /\ last' = Raised("create_post", NoSlug, form.content, form.password,
                      "find_one", e)
    /\ UNCHANGED <<pastes, clock, inc, creates, pc, local, created>>

\* POST /create: insert_one raises, nothing is stored
create_insert_fails(p, e) ==
    /\ pc[p] = "insert"
    /\ last' = Raised("create_insert", local[p].slug,
                      local[p].form.content, local[p].form.password,
                      "insert_one", e)
    /\ inc' = inc + 1
    /\ pc' = [pc EXCEPT ![p] = "idle"]
    /\ local' = [local EXCEPT ![p] = Idle]
    /\ UNCHANGED <<pastes, clock, creates, created>>

\* the requests that begin with get_paste_or_404
GetOps == {"view", "raw", "edit_get", "edit_post"}

\* get_paste_or_404: find_one raises
get_find_fails(op, slug, form, e) ==
    /\ last' = Raised(op, slug, form.content, form.password, "find_one", e)
    /\ UNCHANGED <<pastes, clock, inc, creates, pc, local, created>>

\* get_paste_or_404: the paste is found expired and delete_one raises;
\* nothing catches the exception and the record stays
get_delete_fails(op, slug, form, e) ==
    /\ \E paste \in find_one(slug) : IsExpired(paste, clock)
    /\ last' = Raised(op, slug, form.content, form.password,
                      "delete_one", e)
    /\ UNCHANGED <<pastes, clock, inc, creates, pc, local, created>>

\* POST /edit/<slug>: update_one raises, nothing is written
edit_update_fails(p, e) ==
    /\ pc[p] = "update"
    /\ last' = Raised("edit_update", local[p].slug, local[p].form.content,
                      local[p].form.password, "update_one", e)
    /\ pc' = [pc EXCEPT ![p] = "idle"]
    /\ local' = [local EXCEPT ![p] = Idle]
    /\ UNCHANGED <<pastes, clock, inc, creates, created>>

\* The requests of the specification with failing store calls: creates of
\* one expiring editable paste, and edits with the right password.
FailCreateForms ==
    {f \in CreateForms : f.content \in Blank
                          \/ (f.password = "pw" /\ f.expire_days = <<1>>)}
FailEditForms ==
    {f \in EditForms : f.content = <<"a">> /\ f.password = "pw"
                        /\ f.title = Absent /\ f.language = "js"}
GetForm(op, form) == IF op = "edit_post" THEN form ELSE NoForm

MaxFailCreates == 1

NextFail ==
    \/ Step({1}, MaxFailCreates, FailCreateForms, FailEditForms, Slugs)
    \/ \E form \in FailCreateForms, e \in StoreErrors :
           create_find_fails(form, e)
    \/ \E e \in StoreErrors : create_insert_fails(1, e)
    \/ \E op \in GetOps, slug \in Slugs, form \in FailEditForms,
          e \in StoreErrors :
           \/ get_find_fails(op, slug, GetForm(op, form), e)
           \/ get_delete_fails(op, slug, GetForm(op, form), e)
    \/ \E e \in StoreErrors : edit_update_fails(1, e)

SpecFail == Init /\ [][NextFail]_vars

\* Concurrent edits: one editable paste that does not expire soon, and
\* every interleaving of the lookup and write steps of NumProcs edits that
\* supply the title, the language or neither.
MaxEditCreates == 1

EditCreateForms ==
    {f \in CreateForms : f.content \in Blank
                          \/ (f.password = "pw" /\ f.expire_days = <<1>>)}
ConcEditForms ==
    {f \in EditForms : f.password = "pw" /\ f.content \in {<<"a">>, <<" ">>}}

NextEdit == Step(Procs, MaxEditCreates, EditCreateForms, ConcEditForms, Slugs)

SpecEdit == Init /\ [][NextEdit]_vars

\* ================================================================ claims
Stored(id) == \E r \in pastes : r._id = id
Expired(r, now) == r.expires_at # NoTime /\ now > r.expires_at

PendingFallback(p) == pc[p] = "insert" /\ local[p].slug[1] = "oid"

\* C2 (as stated): the fallback slug of a create whose candidate collided
\* differs from every stored slug and from the fallback slug of every other
\* create in flight.
FallbackUnique ==
    \A p \in Procs :
        PendingFallback(p) =>
            /\ \A r \in pastes : r.slug # local[p].slug
            /\ \A q \in Procs :
                  (q # p /\ PendingFallback(q)) => local[q].slug # local[p].slug

\* the operations that look a paste up with get_paste_or_404
LookupOps == {"view", "raw", "edit_get", "edit_post"}

\* C3: expiry on every read path.  A view, a raw retrieval, an edit form GET
\* or an edit POST that looks up a stored paste whose expires_at is before
\* the current time fails with NotFound, returns neither the paste nor its
\* content, starts no update and leaves no changed copy of the record.
ExpiredNotFound ==
    [][\A r \in pastes :
          (last'.op \in LookupOps /\ last'.slug = r.slug /\ Expired(r, clock))
          => /\ last'.status = "NotFound"
             /\ last'.paste = {}
             /\ last'.body = <<>>
             /\ pc' = pc
             /\ \A q \in pastes' : q._id = r._id => q = r]_vars

\* an edit POST with the right password and new content met an expired paste
ExpiredNotFoundWitness ==
    /\ last.op = "edit_post"
    /\ last.status = "NotFound"
    /\ last.content = <<"a">>
    /\ \E c \in created :
          /\ c.doc.slug = last.slug
          /\ c.form.password = last.password
          /\ c.form.password # ""
          /\ Expired(c.doc, clock)

\* C4 (as stated): once a paste's expires_at is in the past, every get of
\* its slug fails with NotFound, the first one and every later one.
LazyDeletionAsStated ==
    [][\A c \in created :
          (last'.op \in LookupOps /\ last'.slug = c.doc.slug
             /\ Expired(c.doc, clock))
          => last'.status = "NotFound"]_vars

\* C4 (amended): a get of the slug of a paste whose expires_at is in the
\* past leaves that record out of the store, and fails with NotFound unless
\* a later create has stored a new, unexpired paste under the same slug; a
\* record that has left the store never comes back.
LazyDeletion ==
    [][\A c \in created :
          /\ (last'.op \in LookupOps /\ last'.slug = c.doc.slug
                /\ Expired(c.doc, clock))
             => /\ \A q \in pastes' : q._id # c.doc._id
                /\ \/ last'.status = "NotFound"
                   \/ \E d \in created :
                         /\ d.doc._id # c.doc._id
                         /\ d.doc.slug = c.doc.slug
                         /\ Stored(d.doc._id)
                         /\ ~Expired(d.doc, clock)
                         /\ d.doc.created_at >= c.doc.created_at
                /\ \A q \in last'.paste : q._id # c.doc._id
          /\ ~Stored(c.doc._id) => \A q \in pastes' : q._id # c.doc._id]_vars

\* the first get of an expired paste has just removed it
LazyDeletionWitness ==
    /\ last.op = "view"
    /\ last.status = "NotFound"
    /\ \E c \in created :
          /\ c.doc.slug = last.slug
          /\ Expired(c.doc, clock)
          /\ ~Stored(c.doc._id)
          /\ \A r \in pastes : r.slug # c.doc.slug

\* every stored paste without password_hash is the document create wrote
Untouched ==
    \A r \in pastes : r.password_hash = NoHash => \E c \in created : c.doc = r

\* C5 (as stated): every edit POST for a stored paste created without a
\* password fails with NotEditable, whatever password it carries, and the
\* record keeps the fields written at creation.
ImmutableAsStated ==
    [][/\ \A r \in pastes :
            (r.password_hash = NoHash /\ last'.op = "edit_post"
               /\ last'.slug = r.slug)
            => last'.status = "NotEditable"
       /\ Untouched']_vars

\* C5 (amended): every edit POST for a stored paste created without a
\* password fails with NotEditable if the paste has not expired and with
\* NotFound if it has, whatever password it carries, and starts no update;
\* every stored paste without password_hash keeps the fields written at
\* creation.
Immutable ==
    [][/\ \A r \in pastes :
            (r.password_hash = NoHash /\ last'.op = "edit_post"
               /\ last'.slug = r.slug)
            => /\ last'.status =
                    IF Expired(r, clock) THEN "NotFound" ELSE "NotEditable"
               /\ pc' = pc
       /\ Untouched']_vars

\* an edit POST with a non-empty password and new content was refused for a
\* paste that has no password
ImmutableWitness ==
    /\ last.op = "edit_post"
    /\ last.status = "NotEditable"
    /\ last.password = "pw"
    /\ last.content = <<"a">>
    /\ \E r \in pastes : r.slug = last.slug /\ r.password_hash = NoHash

\* C6: wrong password.  An edit POST for a stored, password-protected,
\* unexpired paste with a password that does not match the stored hash
\* fails with Unauthorized, starts no update and leaves the store as it is.
WrongPassword ==
    [][\A r \in pastes :
          (last'.op = "edit_post" /\ last'.slug = r.slug
             /\ r.password_hash # NoHash /\ ~Expired(r, clock)
             /\ ~check_password_hash(r.password_hash, last'.password))
          => /\ last'.status = "Unauthorized"
             /\ pastes' = pastes
             /\ pc' = pc]_vars

\* an edit POST with a wrong password and valid content was refused
WrongPasswordWitness ==
    /\ last.op = "edit_post"
    /\ last.status = "Unauthorized"
    /\ last.password = "x"
    /\ last.content = <<"a">>
    /\ \E r \in pastes : r.slug = last.slug /\ r.content # last.content

\* C7: successful update frame.  The write of an edit POST that passed the
\* checks sets content to the new content and updated_at to the current
\* time in the record it looked up, when that record is stored, leaves its
\* slug, created_at, expires_at and password_hash as they were, leaves
\* every other record as it was and adds or removes none.
UpdateFrame ==
    [][\A p \in Procs :
          (pc[p] = "update" /\ pc'[p] = "idle")
          => LET paste == CHOOSE r \in local[p].paste : TRUE
             IN /\ {q._id : q \in pastes'} = {r._id : r \in pastes}
                /\ \A r \in pastes :
                      IF r._id = paste._id
                      THEN \E q \in pastes' :
                             /\ q._id = r._id
                             /\ q.content = local[p].form.content
                             /\ q.updated_at = clock
                             /\ q.slug = r.slug
                             /\ q.created_at = r.created_at
                             /\ q.expires_at = r.expires_at
                             /\ q.password_hash = r.password_hash
                      ELSE r \in pastes']_vars

\* an update has changed the content of one of two stored pastes
UpdateFrameWitness ==
    /\ last.op = "edit_update"
    /\ Cardinality(pastes) = 2
    /\ \E r \in pastes, c \in created :
          /\ r.slug = last.slug
          /\ c.doc._id = r._id
          /\ r.content = last.content
          /\ r.content # c.doc.content
          /\ r.updated_at > r.created_at

\* C8: create/get round trip.  A view or a raw retrieval of the slug that a
\* create returned, while the paste has not expired and no update was
\* applied to it, succeeds and returns the content, title and language that
\* were submitted.
RoundTrip ==
    [][\A c \in created :
          (last'.op \in {"view", "raw"} /\ last'.slug = c.doc.slug
             /\ ~Expired(c.doc, clock)
             /\ \A r \in pastes : r._id = c.doc._id => r.updated_at = NoTime)
          => /\ last'.status = "OK"
             /\ last'.op = "raw" => last'.body = c.form.content
             /\ last'.op = "view" =>
                   \E r \in last'.paste :
                      /\ r.content = c.form.content
                      /\ r.title = c.form.title
                      /\ r.language = c.form.language]_vars

\* a raw retrieval returned content with its leading blank, as submitted
RoundTripWitness ==
    /\ last.op = "raw"
    /\ last.status = "OK"
    /\ last.body = <<" ", "b">>
    /\ \E c \in created : c.doc.slug = last.slug /\ c.form.content = last.body

\* C9: content non-emptiness.  In every reachable state the content of every
\* stored paste is non-empty after strip().
ContentNonEmpty == \A r \in pastes : Strip(r.content) # <<>>

\* an edit with blank content was refused for a paste that was edited before
ContentNonEmptyWitness ==
    /\ last.op = "edit_post"
    /\ last.status = "ValidationError"
    /\ last.content = <<" ">>
    /\ \E r \in pastes : r.slug = last.slug /\ r.updated_at # NoTime

\* C10: create validation has no side effect.  A POST /create whose content
\* is empty after strip() fails with ValidationError, starts no insert,
\* draws no ObjectId and leaves the store as it is.
CreateValidation ==
    [][(last'.op \in {"create_post", "create_insert"}
          /\ Strip(last'.content) = <<>>)
       => /\ last'.status = "ValidationError"
          /\ pastes' = pastes
          /\ pc' = pc
          /\ local' = local
          /\ inc' = inc
          /\ created' = created]_vars

\* a create with whitespace-only content was refused while a paste is stored
CreateValidationWitness ==
    /\ last.op = "create_post"
    /\ last.status = "ValidationError"
    /\ last.content = <<" ">>
    /\ pastes # {}

\* C11: swallowed deletion failure.  When a request that looks a paste up
\* finds it expired and the delete_one of that record raises, the request
\* still answers NotFound and no other error.
DeleteFailureSwallowed ==
    [][(last'.op \in LookupOps /\ last'.failed[1] = "delete_one")
       => last'.status = "NotFound"]_vars

\* C12: expiry timestamp.  A create that reported success stored a paste
\* whose created_at is the instant of the insert step; with expire_days > 0
\* its expires_at is created_at + expire_days, and with expire_days absent,
\* zero or negative its expires_at is absent and the paste is expired at
\* no instant.
ExpiryTimestamp ==
    [][(last'.op = "create_insert" /\ last'.status = "OK")
       => /\ created' # created
          /\ \A c \in created' \ created :
                /\ c.doc \in pastes'
                /\ c.doc.created_at = clock
                /\ IF c.form.expire_days # <<>> /\ c.form.expire_days[1] > 0
                   THEN c.doc.expires_at =
                           c.doc.created_at + c.form.expire_days[1]
                   ELSE /\ c.doc.expires_at = NoTime
                        /\ \A t \in 1..(MaxClock + 1) :
                              ~IsExpired(c.doc, t)]_vars

\* a create with expire_days 1 and a create with expire_days 0 or -1 both
\* succeeded, the second one after the clock moved
ExpiryTimestampWitness ==
    /\ last.op = "create_insert"
    /\ last.status = "OK"
    /\ \E c1, c2 \in created :
          /\ c1.form.expire_days = <<1>>
          /\ c2.form.expire_days \in {<<0>>, <<-1>>}
          /\ c2.doc.created_at > 1
          /\ c2.doc.slug = last.slug

\* the slugs that successful creates have returned
Issued == {c.doc.slug : c \in created}

\* C13: unknown slug.  The store never holds a record under a slug that no
\* successful create returned, and a view, raw read, edit form or edit of
\* such a slug answers NotFound and leaves the store as it is.
UnknownSlug ==
    [][/\ \A r \in pastes' : r.slug \in Issued'
       /\ (last'.op \in LookupOps /\ last'.slug \notin Issued)
            => (last'.status = "NotFound" /\ pastes' = pastes)]_vars

\* a slug that was never issued was looked up while another paste is stored
UnknownSlugWitness ==
    /\ last.op \in LookupOps
    /\ last.slug \notin Issued
    /\ last.status = "NotFound"
    /\ pastes # {}

\* the failures of connectivity and the timeouts among the store errors
Connectivity == {"ServerSelectionTimeoutError", "ConnectionFailure",
                 "NetworkTimeout"}

\* C14: store unavailability.  Whenever a store call of a create, a lookup
\* or an update raises a connectivity or timeout failure, the request
\* answers StoreUnavailable (503) with no paste and no body, and the store
\* is as it was.
StoreUnavailable ==
    [][(last'.failed # NoFailure /\ last'.failed[2] \in Connectivity)
       => /\ last'.status = "StoreUnavailable"
          /\ last'.paste = {}
          /\ last'.body = <<>>
          /\ pastes' = pastes]_vars

\* the update_one of an edit broke on the connection while a paste is stored
StoreUnavailableWitness ==
    /\ last.op = "edit_update"
    /\ last.failed = <<"update_one", "ConnectionFailure">>
    /\ last.status = "StoreUnavailable"
    /\ pastes # {}

\* C15: fallback to existing values.  An update that supplies no title
\* leaves the stored title of its paste as it is at the write, and one that
\* supplies no language leaves the stored language as it is, also when
\* another update of the same paste wrote a new title or language between
\* this update's lookup and its write.
FallbackKeepsStored ==
    [][\A p \in Procs :
          (pc[p] = "update" /\ pc'[p] = "idle" /\ last'.op = "edit_update")
          => \A r \in pastes, q \in pastes' :
                (r._id = q._id /\ \E s \in local[p].paste : s._id = r._id)
                => /\ local[p].form.title = Absent => q.title = r.title
                   /\ local[p].form.language = Absent
                         => q.language = r.language]_vars

\* C16: update success is real.  Whenever the write step of an update
\* answers success, the store held the record the update looked up when
\* the write was applied, and right after the write that record's content
\* is the submitted content; also when a lookup deleted the paste as
\* expired between the update's lookup and its write.
UpdateSuccessReal ==
    [][\A p \in Procs :
          (pc[p] = "update" /\ pc'[p] = "idle"
             /\ last'.op = "edit_update" /\ last'.status = "OK")
          => \E s \in local[p].paste :
                /\ Stored(s._id)
                /\ \E q \in pastes' :
                      q._id = s._id /\ q.content = local[p].form.content]_vars

\* C17: order of update checks.  A POST /edit/<slug> answers the first
\* failure in the order NotFound (no record of the slug, or the record is
\* expired), NotEditable (no password_hash), Unauthorized (password does
\* not verify), ValidationError (content empty after strip()), and only
\* when none applies goes on to the write.
CheckOrder ==
    [][last'.op = "edit_post"
       => LET found == {r \in pastes : r.slug = last'.slug}
          IN last'.status =
                IF found = {} \/ \E r \in found : Expired(r, clock)
                THEN "NotFound"
                ELSE IF \E r \in found : r.password_hash = NoHash
                THEN "NotEditable"
                ELSE IF \E r \in found :
                          ~check_password_hash(r.password_hash,
                                               last'.password)
                THEN "Unauthorized"
                ELSE IF Strip(last'.content) = <<>>
                THEN "ValidationError"
                ELSE "pending"]_vars

\* a wrong password together with blank content was answered Unauthorized
CheckOrderWitness ==
    /\ last.op = "edit_post"
    /\ last.status = "Unauthorized"
    /\ last.password = "x"
    /\ Strip(last.content) = <<>>

\* C18: only expired pastes are deleted.  A record leaves the store only
\* in a lookup of its slug at an instant strictly later than its
\* expires_at; a view or raw read of a paste with no expires_at, or with
\* expires_at equal to or later than the clock, answers OK and keeps the
\* record.
OnlyExpiredDeleted ==
    [][\A r \in pastes :
          /\ (~\E q \in pastes' : q._id = r._id)
                => /\ last'.op \in LookupOps
                   /\ last'.slug = r.slug
                   /\ r.expires_at # NoTime
                   /\ r.expires_at < clock
          /\ (last'.op \in {"view", "raw"} /\ last'.slug = r.slug
                /\ (r.expires_at = NoTime \/ r.expires_at >= clock))
                => (last'.status = "OK" /\ r \in pastes')]_vars

\* a paste was viewed at the very instant of its expires_at and is kept
OnlyExpiredDeletedWitness ==
    /\ last.op = "view"
    /\ last.status = "OK"
    /\ \E r \in pastes : r.slug = last.slug /\ r.expires_at = clock

\* the slugs of the stored pastes
StoredSlugs == {r.slug : r \in pastes}

\* C19 as stated: no step of an update adds a record, and the set of
\* stored slugs is the same after any update as before it.
UpdateNeverInsertsAsStated ==
    [][last'.op \in {"edit_post", "edit_update"}
       => /\ \A q \in pastes' : Stored(q._id)
          /\ StoredSlugs' = StoredSlugs]_vars

\* C19: update never inserts.  No step of an update adds a record; the
\* write of an update leaves the set of stored slugs as it is, also when
\* its target was deleted as expired after the update's lookup; the only
\* record an update removes is its own target, found expired by the
\* update's lookup, which then answers NotFound.
UpdateNeverInserts ==
    [][last'.op \in {"edit_post", "edit_update"}
       => /\ \A q \in pastes' : \E r \in pastes :
                r._id = q._id /\ r.slug = q.slug
          /\ last'.op = "edit_update" => StoredSlugs' = StoredSlugs
          /\ \A r \in pastes :
                (~\E q \in pastes' : q._id = r._id)
                => /\ last'.op = "edit_post"
                   /\ last'.status = "NotFound"
                   /\ last'.slug = r.slug
                   /\ Expired(r, clock)]_vars

\* an update wrote after its target had been deleted as expired
UpdateNeverInsertsWitness ==
    /\ last.op = "edit_update"
    /\ last.slug \in Issued
    /\ last.slug \notin StoredSlugs

\* C20: reads are side-effect free on live pastes.  A view, raw read or
\* edit form of a slug that is not stored, or whose paste is not expired,
\* leaves the store, the pending requests and the counters as they are.
ReadsSideEffectFree ==
    [][(last'.op \in {"view", "raw", "edit_get"}
          /\ \A r \in pastes : r.slug = last'.slug => ~Expired(r, clock))
       => /\ pastes' = pastes
          /\ pc' = pc
          /\ local' = local
          /\ inc' = inc
          /\ created' = created]_vars

\* the edit form of a paste that expires later was opened while an update
\* of it is between lookup and write
ReadsSideEffectFreeWitness ==
    /\ last.op = "edit_get"
    /\ last.status = "OK"
    /\ \E r \in pastes : r.slug = last.slug /\ r.expires_at > clock
    /\ \E p \in Procs : pc[p] = "update"
====
